---- MODULE Spec2Model ----
(***************************************************************************)
(* softprops/actions: the cursor-following paginator (src/src/github.rs,   *)
(* Requests::paginate, next_link, Requests::runs) and the run statistics   *)
(* fold built on it (src/src/runs.rs, run_stats).                          *)
(*                                                                         *)
(* A paginate stream is stream::unfold(state, ..).flatten(): unfold holds  *)
(* the PageState, its closure suspends at builder.send().await and at      *)
(* response.json().await, and flatten hands the items of the page's        *)
(* stream::iter(items) to the consumer one by one before it polls unfold   *)
(* again.  The remote API is the environment: a map from URL to page that  *)
(* is discovered as requests are answered.                                 *)
(***************************************************************************)
EXTENDS Integers, Sequences, FiniteSets, TLC

\* ---------------------------------------------------------------- bounds
\* URLs the remote API serves: 1 is the endpoint of the listing, the others
\* are targets of link headers.
NumUrls == 3
\* Timestamps are 0..MaxTime.
MaxTime == 2
\* Number of items the remote listing holds over all its pages.
MaxListed == 2
\* Length of the in-memory run stream handed to run_stats directly.
MaxRuns == 3

\* The number of pipelines for_each_concurrent lets run at a time, Some(20) in
\* the program, scaled down; the Stats command dispatches one workflow more.
ConcurrencyLimit == 2
NumWorkflows == ConcurrencyLimit + 1

\* Seconds in a minute, for the grand total printed in minutes.
SecsPerMinute == 60

\* Workflow names and name filters are strings of at most MaxName characters;
\* the stream handed to filtered_workflows holds at most TestFlows workflows,
\* as in the test of runs.rs.
MaxName == 2
TestFlows == 2

\* The code search of Requests::repos returns at most MaxHits hits.
MaxHits == 3

Urls == 1..NumUrls
Times == 0..MaxTime
\* A stream issues at most MaxRequests requests in the model: a listing whose
\* next links loop is cut off there.
MaxRequests == NumUrls + 1

\* ------------------------------------------------------------ data types
None == [tag |-> "None"]
Some(v) == [tag |-> "Some", v |-> v]

\* github.rs Run: the two timestamps are the fields the program computes with.
Runs == [created_at : Times, updated_at : Times]
\* The runs the remote listing serves: every creation time, completed at MaxTime.
ListedRuns == {r \in Runs : r.updated_at = MaxTime}

RECURSIVE SeqsUpTo(_, _)
SeqsUpTo(S, n) ==
    IF n = 0 THEN {<<>>}
    ELSE LET shorter == SeqsUpTo(S, n - 1)
         IN  shorter \cup {Append(q, x) : q \in {t \in shorter : Len(t) = n - 1}, x \in S}

\* PageState
End == [tag |-> "End"]
Fetch(builder) == [tag |-> "Fetch", builder |-> builder]

\* Requests::builder: every request gets the two headers.
builder(url) == [url |-> url, headers |-> {"User-Agent", "Authorization"}]
\* get handing out the request of the client as it is, without the token.
get_bare(url) == [url |-> url, headers |-> {"User-Agent"}]

\* Requests::get
get(url) == builder(url)


\* ------------------------------------------------------- response headers
\* The Link header of a response: absent, present but unparsable, or a list of
\* link values, each a target URL with an optional list of relation types.
NoLinkHeader == [kind |-> "absent"]
BadLinkHeader == [kind |-> "malformed"]
LinkHeader(values) == [kind |-> "links", values |-> values]
LinkValue(url, rel) == [link |-> url, rel |-> rel]

\* Iterator::find_map over the link values: the first value whose rel() is
\* present and holds RelationType::Next gives its link.
RECURSIVE find_map_next(_)
find_map_next(values) ==
    IF values = <<>> THEN None
    ELSE LET value == Head(values)
         IN  IF value.rel.tag = "Some" /\ "next" \in value.rel.v
             THEN Some(value.link)
             ELSE find_map_next(Tail(values))

\* next_link following the first link value whatever its relation.
next_link_any(response) ==
    IF response.link.kind = "absent" THEN None
    ELSE IF response.link.kind = "malformed" THEN None
    ELSE IF response.link.values = <<>> THEN None
    ELSE Some(Head(response.link.values).link)

\* next_link: headers().get(LINK)? and Link::parse_header(..).ok()? give None
\* for a missing and for an unparsable header.
next_link(response) ==
    IF response.link.kind = "absent" THEN None
    ELSE IF response.link.kind = "malformed" THEN None
    ELSE find_map_next(response.link.values)

\* ----------------------------------------------------- continuation policy
\* An always-continue predicate that gives up on an empty page.
cont_nonempty(items) == items # <<>>

\* |_| true, the predicate of repos, secrets, artifacts and workflows.
cont_always(items) == TRUE

\* cont_runs asking for every run to be recent instead of any.
cont_runs_all(cutoff, runs) == \A i \in 1..Len(runs) : runs[i].created_at >= cutoff

\* cont_runs with a strict comparison: a run at the cutoff does not count.
cont_runs_strict(cutoff, runs) == \E i \in 1..Len(runs) : runs[i].created_at > cutoff

\* Requests::runs: move |runs| runs.iter().any(|run| run.created_at >= since)
cont_runs(cutoff, runs) == \E i \in 1..Len(runs) : runs[i].created_at >= cutoff

\* The extractor of Requests::runs: |w: Runs| w.workflow_runs
into(page) == page.workflow_runs

\* --------------------------------------------------------------- run_stats
Ok(v) == [tag |-> "Ok", v |-> v]
Err == [tag |-> "Err"]

\* chrono Duration::to_std: a negative duration is out of range.
to_std_abs(d) == IF d < 0 THEN Ok(0 - d) ELSE Ok(d)

to_std(d) == IF d < 0 THEN Err ELSE Ok(d)

\* Run::duration, before its unwrap(): Err is the value unwrap() panics on.
duration(run) == to_std(run.updated_at - run.created_at)

cmp_min(a, b) == IF a <= b THEN a ELSE b
cmp_max(a, b) == IF a >= b THEN a ELSE b

\* RunStats::default()
RunStatsDefault == [count |-> 0, total |-> 0, min |-> None, max |-> None]

\* The fold closure of run_stats panics on a run it keeps whose duration is Err.
fold_panics(cutoff, run) ==
    /\ ~(run.created_at < cutoff)
    /\ duration(run).tag = "Err"

\* fold_step dropping the runs created exactly at the cutoff.
fold_step_le(cutoff, stats, run) ==
    IF run.created_at <= cutoff THEN stats
    ELSE LET d == duration(run).v
         IN  [count |-> stats.count + 1,
              total |-> stats.total + d,
              min |-> Some(IF stats.min.tag = "None" THEN d ELSE cmp_min(d, stats.min.v)),
              max |-> Some(IF stats.max.tag = "None" THEN d ELSE cmp_max(d, stats.max.v))]

\* fold_step with cmp::max and cmp::min taken for each other.
fold_step_swapped(cutoff, stats, run) ==
    IF run.created_at < cutoff THEN stats
    ELSE LET d == duration(run).v
         IN  [count |-> stats.count + 1,
              total |-> stats.total + d,
              min |-> Some(IF stats.min.tag = "None" THEN d ELSE cmp_max(d, stats.min.v)),
              max |-> Some(IF stats.max.tag = "None" THEN d ELSE cmp_min(d, stats.max.v))]

\* fold_step whose min is the duration of the first run it kept.
fold_step_first(cutoff, stats, run) ==
    IF run.created_at < cutoff THEN stats
    ELSE LET d == duration(run).v
         IN  [count |-> stats.count + 1,
              total |-> stats.total + d,
              min |-> Some(IF stats.min.tag = "None" THEN d ELSE stats.min.v),
              max |-> Some(IF stats.max.tag = "None" THEN d ELSE cmp_max(d, stats.max.v))]

\* The fold closure of run_stats, for a run it does not panic on.
fold_step(cutoff, stats, run) ==
    IF run.created_at < cutoff THEN stats
    ELSE LET d == duration(run).v
         IN  [count |-> stats.count + 1,
              total |-> stats.total + d,
              min |-> Some(IF stats.min.tag = "None" THEN d ELSE cmp_min(d, stats.min.v)),
              max |-> Some(IF stats.max.tag = "None" THEN d ELSE cmp_max(d, stats.max.v))]


\* ------------------------------------------------------------------ state
VARIABLES
    since,      \* the cutoff of the command (date_or_first_of_the_month)
    listing,    \* "any" or "chronological": what the remote listing promises
    server,     \* the remote API: URL -> page, Unknown until first answered
    policy,     \* stream -> "runs" | "always": the cont closure of the stream
    state,      \* stream -> PageState held by stream::unfold
    pc,         \* stream -> "ready" | "send" | "json" | "done" | "panic"
    response,   \* stream -> the Response whose body is being read
    next,       \* stream -> the result of next_link(&response)
    inner,      \* stream -> items left in the current stream::iter(items)
    inflight,   \* stream -> number of requests sent and not yet answered
    requests,   \* stream -> the requests sent so far, in order
    pages,      \* stream -> the item lists extracted so far, in order
    yielded,    \* stream -> the items handed to the consumer so far
    failure,    \* stream -> "none" | "transport" | "decode"
    stats,      \* stream -> the RunStats accumulator of the run_stats fold
    queue,      \* the filtered workflows the dispatcher has not pulled yet
    futures,    \* the pipelines started and not finished (for_each_concurrent)
    sum,        \* the shared accumulator of the grand total
    output,     \* the lines written to standard output so far, in order
    process,    \* "running" | "finished" | "aborted" (a panic unwound main)
    name_filter,    \* the workflow name given on the command line, if any
    workflows_in,   \* the stream of workflows handed to filtered_workflows
    workflows_seen, \* how many of them the filter has looked at
    workflows_out,  \* the workflows filtered_workflows has let through
    token,      \* the GITHUB_TOKEN variable of the environment, if set
    exit_code,  \* the exit code of the process, once it has exited
    timestamp,  \* the --since argument handed to date_or_first_of_the_month
    now,        \* the date Utc::now() gives
    borrowed,   \* shared cell -> the pipelines holding a mutable borrow of it
    found,      \* the BTreeMap Requests::repos folds the search hits into
    repos       \* the Vec<Repo> Requests::repos returns, once it has

\* The state of one command's streams, of the Stats dispatcher, and of
\* filtered_workflows.
dispatcher == <<queue, futures, sum, output, process>>
filter == <<name_filter, workflows_in, workflows_seen, workflows_out>>
extras == <<token, exit_code, timestamp, now, borrowed, found, repos>>

vars == <<since, listing, server, policy, state, pc, response, next, inner,
          inflight, requests, pages, yielded, failure, stats,
          queue, futures, sum, output, process,
          name_filter, workflows_in, workflows_seen, workflows_out,
          token, exit_code, timestamp, now, borrowed, found, repos>>

Streams == DOMAIN pc

Unknown == [kind |-> "unknown"]
Garbage == [kind |-> "garbage"]
Json(items) == [kind |-> "json", workflow_runs |-> items]
Page(link, body) == [kind |-> "page", link |-> link, body |-> body]

KnownUrls(srv) == {u \in DOMAIN srv : srv[u].kind = "page"}
JsonUrls(srv) == {u \in KnownUrls(srv) : srv[u].body.kind = "json"}

RECURSIVE SumLen(_, _)
SumLen(srv, us) ==
    IF us = {} THEN 0
    ELSE LET u == CHOOSE x \in us : TRUE
         IN  Len(srv[u].body.workflow_runs) + SumLen(srv, us \ {u})

\* Number of items in the pages answered so far.
Listed(srv) == SumLen(srv, JsonUrls(srv))

\* The items of the pages answered so far, in URL order.
RECURSIVE ListingFrom(_, _)
ListingFrom(srv, u) ==
    IF u > NumUrls THEN <<>>
    ELSE (IF u \in JsonUrls(srv) THEN srv[u].body.workflow_runs ELSE <<>>)
         \o ListingFrom(srv, u + 1)

\* Newest first: no run is created after a run listed before it.
Chronological(srv) ==
    LET l == ListingFrom(srv, 1)
    IN  \A i, j \in 1..Len(l) : i < j => l[i].created_at >= l[j].created_at

Advance(url) == {url + 1} \cap Urls

\* The Stats command lists the runs of each workflow at the workflow's own
\* URL: the first page of workflow w is URL w, its second page URL
\* w + NumWorkflows.
Workflows == 1..NumWorkflows
WorkflowUrls == 1..(2 * NumWorkflows)

NextPages(mode, url) ==
    IF mode = "skewed" THEN {url + NumWorkflows} \cap WorkflowUrls ELSE Advance(url)

\* The Link headers the remote API may answer a request for `url` with.  A
\* chronological listing is a chain of pages: a next link leads to the next URL.
LinkHeadersAt(mode, url) ==
    {NoLinkHeader}
    \cup {LinkHeader(<<LinkValue(n, Some({"next"}))>>) : n \in NextPages(mode, url)}
    \cup (IF mode # "any" THEN {}
          ELSE {BadLinkHeader,
                LinkHeader(<<LinkValue(url, Some({"next"}))>>),
                LinkHeader(<<LinkValue(url, Some({"prev"}))>>)}
               \cup {LinkHeader(<<LinkValue(n, None)>>) : n \in Advance(url)}
               \cup {LinkHeader(<<LinkValue(url, Some({"prev"})),
                                  LinkValue(n, Some({"next", "last"}))>>) : n \in Advance(url)})

BodiesLeft(srv) ==
    {Garbage} \cup {Json(q) : q \in SeqsUpTo(ListedRuns, MaxListed - Listed(srv))}

\* A listing with a skewed clock holds runs created up to the middle of the
\* time range, and may also hold a run that finished before it was created.
SkewedRuns ==
    {r \in ListedRuns : r.created_at <= MaxTime \div 2}
    \cup {[created_at |-> MaxTime, updated_at |-> 0]}

BodiesOf(mode, srv) ==
    IF mode = "skewed"
    THEN {Garbage} \cup {Json(q) : q \in SeqsUpTo(SkewedRuns, MaxListed - Listed(srv))}
    ELSE BodiesLeft(srv)

\* What the remote API answers a request for `url` with: the page it answered
\* before, or any page its listing allows.
Answers(mode, srv, url) ==
    IF srv[url].kind = "page" THEN {srv[url]}
    ELSE {p \in {Page(h, b) : h \in LinkHeadersAt(mode, url), b \in BodiesOf(mode, srv)} :
            mode = "chronological" => Chronological([srv EXCEPT ![url] = p])}

\* ------------------------------------------------------------------- Init
NoResponse == [kind |-> "none"]

InitStreamAt(ids, first) ==
    /\ state = [s \in ids |-> Fetch(get(first[s]))]
    /\ pc = [s \in ids |-> "ready"]
    /\ response = [s \in ids |-> NoResponse]
    /\ next = [s \in ids |-> None]
    /\ inner = [s \in ids |-> <<>>]
    /\ inflight = [s \in ids |-> 0]
    /\ requests = [s \in ids |-> <<>>]
    /\ pages = [s \in ids |-> <<>>]
    /\ yielded = [s \in ids |-> <<>>]
    /\ failure = [s \in ids |-> "none"]
    /\ stats = [s \in ids |-> RunStatsDefault]

InitStream(ids) == InitStreamAt(ids, [s \in ids |-> 1])

\* No dispatcher and no workflow filter: one command's streams on their own.
NoDispatcher ==
    /\ queue = <<>>
    /\ futures = {}
    /\ sum = 0
    /\ output = <<>>
    /\ process = "running"

NoFilter ==
    /\ name_filter = None
    /\ workflows_in = <<>>
    /\ workflows_seen = 0
    /\ workflows_out = <<>>

\* The token is set, the process has not exited, no date was parsed, no cell
\* is borrowed and Requests::repos was not called.
NoBorrows == [cell \in {"sum", "writer"} |-> {}]
EmptyMap == [name \in {} |-> <<>>]

Idle ==
    /\ token = Some("secret")
    /\ exit_code = None
    /\ timestamp = None
    /\ now = None
    /\ borrowed = NoBorrows
    /\ found = EmptyMap
    /\ repos = None

\* One paginate stream over an arbitrary remote listing, folded by run_stats.
Init ==
    /\ NoDispatcher /\ NoFilter /\ Idle
    /\ since \in Times
    /\ listing = "any"
    /\ server = [u \in Urls |-> Unknown]
    /\ policy \in [{1} -> {"runs", "always"}]
    /\ InitStream({1})

\* ---------------------------------------------------------------- actions
\* The cont closure the stream was built with.
cont(s, items) ==
    IF policy[s] = "always" THEN cont_always(items) ELSE cont_runs(since, items)

\* PollFetch that also sends the request for the next link as soon as the
\* response headers are in, before the body of the page is decoded.
PollFetchEager(s) ==
    /\ Len(requests[s]) < MaxRequests
    /\ \/ /\ pc[s] = "ready"
          /\ inner[s] = <<>>
          /\ state[s].tag = "Fetch"
          /\ requests' = [requests EXCEPT ![s] = Append(@, state[s].builder)]
          /\ pc' = [pc EXCEPT ![s] = "send"]
       \/ /\ pc[s] = "json"
          /\ next[s].tag = "Some"
          /\ requests' = [requests EXCEPT ![s] = Append(@, get(next[s].v))]
          /\ pc' = pc
    /\ inflight' = [inflight EXCEPT ![s] = @ + 1]
    /\ UNCHANGED <<since, listing, server, policy, state, response, next, inner,
                   pages, yielded, failure, stats>>

\* paginate, PageState::Fetch arm up to builder.send().await: the consumer
\* polls, flatten has no inner stream left, unfold runs its closure on the state.
PollFetch(s) ==
    /\ pc[s] = "ready"
    /\ inner[s] = <<>>
    /\ state[s].tag = "Fetch"
    /\ Len(requests[s]) < MaxRequests
    /\ requests' = [requests EXCEPT ![s] = Append(@, state[s].builder)]
    /\ inflight' = [inflight EXCEPT ![s] = @ + 1]
    /\ pc' = [pc EXCEPT ![s] = "send"]
    /\ UNCHANGED <<since, listing, server, policy, state, response, next, inner,
                   pages, yielded, failure, stats>>

\* paginate, PageState::End => return None: unfold ends, flatten ends, the
\* consumer sees end-of-stream and run_stats returns its accumulator.
PollEnd(s) ==
    /\ pc[s] = "ready"
    /\ inner[s] = <<>>
    /\ state[s].tag = "End"
    /\ pc' = [pc EXCEPT ![s] = "done"]
    /\ UNCHANGED <<since, listing, server, policy, state, response, next, inner,
                   inflight, requests, pages, yielded, failure, stats>>

\* SendFail that keeps the cursor and lets the stream try the request again.
SendFailRetry(s) ==
    /\ pc[s] = "send"
    /\ inflight' = [inflight EXCEPT ![s] = @ - 1]
    /\ failure' = [failure EXCEPT ![s] = "transport"]
    /\ pc' = [pc EXCEPT ![s] = "ready"]
    /\ UNCHANGED <<since, listing, server, policy, state, response, next, inner,
                   requests, pages, yielded, stats>>

\* builder.send().await.ok()? fails: the closure returns None.
SendFail(s) ==
    /\ pc[s] = "send"
    /\ inflight' = [inflight EXCEPT ![s] = @ - 1]
    /\ failure' = [failure EXCEPT ![s] = "transport"]
    /\ pc' = [pc EXCEPT ![s] = "done"]
    /\ UNCHANGED <<since, listing, server, policy, state, response, next, inner,
                   requests, pages, yielded, stats>>

\* builder.send().await gives a response; let next = next_link(&response).
SendOk(s) ==
    /\ pc[s] = "send"
    /\ \E page \in Answers(listing, server, state[s].builder.url) :
          /\ server' = [server EXCEPT ![state[s].builder.url] = page]
          /\ response' = [response EXCEPT ![s] = page]
          /\ next' = [next EXCEPT ![s] = next_link(page)]
    /\ pc' = [pc EXCEPT ![s] = "json"]
    /\ UNCHANGED <<since, listing, policy, state, inner, inflight, requests,
                   pages, yielded, failure, stats>>

\* JsonFail that keeps the cursor and lets the stream try the request again.
JsonFailRetry(s) ==
    /\ pc[s] = "json"
    /\ response[s].body.kind = "garbage"
    /\ inflight' = [inflight EXCEPT ![s] = @ - 1]
    /\ failure' = [failure EXCEPT ![s] = "decode"]
    /\ response' = [response EXCEPT ![s] = NoResponse]
    /\ pc' = [pc EXCEPT ![s] = "ready"]
    /\ UNCHANGED <<since, listing, server, policy, state, next, inner,
                   requests, pages, yielded, stats>>

\* JsonFail that skips the undecodable page and goes on with the page its
\* response links to.
JsonFailSkips(s) ==
    /\ pc[s] = "json"
    /\ response[s].body.kind = "garbage"
    /\ inflight' = [inflight EXCEPT ![s] = @ - 1]
    /\ failure' = [failure EXCEPT ![s] = "decode"]
    /\ response' = [response EXCEPT ![s] = NoResponse]
    /\ state' = [state EXCEPT ![s] =
                    IF next[s].tag = "Some" THEN Fetch(get(next[s].v)) ELSE End]
    /\ pc' = [pc EXCEPT ![s] = "ready"]
    /\ UNCHANGED <<since, listing, server, policy, next, inner,
                   requests, pages, yielded, stats>>

\* response.json::<P>().await.ok()? fails: the closure returns None.
JsonFail(s) ==
    /\ pc[s] = "json"
    /\ response[s].body.kind = "garbage"
    /\ inflight' = [inflight EXCEPT ![s] = @ - 1]
    /\ failure' = [failure EXCEPT ![s] = "decode"]
    /\ response' = [response EXCEPT ![s] = NoResponse]
    /\ pc' = [pc EXCEPT ![s] = "done"]
    /\ UNCHANGED <<since, listing, server, policy, state, next, inner,
                   requests, pages, yielded, stats>>

\* next_state that follows a next link whatever the predicate says.
next_state_link_only(s, nxt, items) ==
    IF nxt.tag = "Some" THEN Fetch(get(nxt.v)) ELSE End

\* The next PageState of paginate: Fetch(this.get(&link)) for Some(link) if
\* cont(&items), End otherwise.
next_state(s, nxt, items) ==
    IF nxt.tag = "Some" /\ cont(s, items) THEN Fetch(get(nxt.v)) ELSE End

\* response.json::<P>().await gives the page: items = into(page), the next
\* state is computed and Some((stream::iter(items), next_state)) is returned.
JsonOk(s) ==
    /\ pc[s] = "json"
    /\ response[s].body.kind = "json"
    /\ LET items == into(response[s].body)
       IN  /\ state' = [state EXCEPT ![s] = next_state(s, next[s], items)]
           /\ inner' = [inner EXCEPT ![s] = items]
           /\ pages' = [pages EXCEPT ![s] = Append(@, items)]
    /\ inflight' = [inflight EXCEPT ![s] = @ - 1]
    /\ response' = [response EXCEPT ![s] = NoResponse]
    /\ pc' = [pc EXCEPT ![s] = "ready"]
    /\ UNCHANGED <<since, listing, server, policy, next, requests, yielded,
                   failure, stats>>

\* Yield that hands out the items of a page from the back.
YieldLast(s) ==
    /\ pc[s] = "ready"
    /\ inner[s] # <<>>
    /\ LET run == inner[s][Len(inner[s])]
       IN  /\ yielded' = [yielded EXCEPT ![s] = Append(@, run)]
           /\ inner' = [inner EXCEPT ![s] = SubSeq(@, 1, Len(@) - 1)]
           /\ IF fold_panics(since, run)
              THEN /\ pc' = [pc EXCEPT ![s] = "panic"]
                   /\ stats' = stats
              ELSE /\ pc' = pc
                   /\ stats' = [stats EXCEPT ![s] = fold_step(since, @, run)]
    /\ UNCHANGED <<since, listing, server, policy, state, response, next,
                   inflight, requests, pages, failure>>

\* flatten hands the next item of stream::iter(items) to the consumer, and the
\* fold of run_stats takes it in.
Yield(s) ==
    /\ pc[s] = "ready"
    /\ inner[s] # <<>>
    /\ LET run == Head(inner[s])
       IN  /\ yielded' = [yielded EXCEPT ![s] = Append(@, run)]
           /\ inner' = [inner EXCEPT ![s] = Tail(@)]
           /\ IF fold_panics(since, run)
              THEN /\ pc' = [pc EXCEPT ![s] = "panic"]
                   /\ stats' = stats
              ELSE /\ pc' = pc
                   /\ stats' = [stats EXCEPT ![s] = fold_step(since, @, run)]
    /\ UNCHANGED <<since, listing, server, policy, state, response, next,
                   inflight, requests, pages, failure>>

Next ==
    /\ \E s \in Streams :
           \/ PollFetch(s)
           \/ PollEnd(s)
           \/ SendFail(s)
           \/ SendOk(s)
           \/ JsonFail(s)
           \/ JsonOk(s)
           \/ Yield(s)
    /\ UNCHANGED <<dispatcher, filter, extras>>

Spec == Init /\ [][Next]_vars

\* Every request that is sent is eventually answered and the consumer keeps
\* polling: fold, for_each and next().await drive a stream until it ends.
\* The stream of Init with the cutoff in the middle of the time range, so that
\* runs are created before it, at it and after it.
InitFair == Init /\ since = MaxTime \div 2

FairSpec == InitFair /\ [][Next]_vars /\ WF_vars(Next)

\* run_stats over a stream whose items are in memory, stream::iter(runs) as in
\* the tests of runs.rs: nothing is left to fetch.
InitStats ==
    /\ NoDispatcher /\ NoFilter /\ Idle
    /\ since \in Times
    /\ listing = "any"
    /\ server = [u \in Urls |-> Unknown]
    /\ policy = [s \in {1} |-> "runs"]
    /\ state = [s \in {1} |-> End]
    /\ pc = [s \in {1} |-> "ready"]
    /\ response = [s \in {1} |-> NoResponse]
    /\ next = [s \in {1} |-> None]
    /\ inner \in [{1} -> SeqsUpTo(Runs, MaxRuns)]
    /\ inflight = [s \in {1} |-> 0]
    /\ requests = [s \in {1} |-> <<>>]
    /\ pages = [s \in {1} |-> <<>>]
    /\ yielded = [s \in {1} |-> <<>>]
    /\ failure = [s \in {1} |-> "none"]
    /\ stats = [s \in {1} |-> RunStatsDefault]

NextStats ==
    /\ \E s \in Streams : Yield(s) \/ PollEnd(s)
    /\ UNCHANGED <<dispatcher, filter, extras>>

SpecStats == InitStats /\ [][NextStats]_vars

\* run_stats twice over the same runs in memory, handed over in two orders.
Reorderings(q) ==
    {[i \in 1..Len(q) |-> q[p[i]]] :
        p \in {f \in [1..Len(q) -> 1..Len(q)] :
                  \A i, j \in 1..Len(q) : f[i] = f[j] => i = j}}

InitPerm ==
    /\ NoDispatcher /\ NoFilter /\ Idle
    /\ since \in Times
    /\ listing = "any"
    /\ server = [u \in Urls |-> Unknown]
    /\ policy = [s \in {1, 2} |-> "runs"]
    /\ state = [s \in {1, 2} |-> End]
    /\ pc = [s \in {1, 2} |-> "ready"]
    /\ response = [s \in {1, 2} |-> NoResponse]
    /\ next = [s \in {1, 2} |-> None]
    /\ \E q \in SeqsUpTo(ListedRuns, MaxRuns) : \E r \in Reorderings(q) :
           inner = [s \in {1, 2} |-> IF s = 1 THEN q ELSE r]
    /\ inflight = [s \in {1, 2} |-> 0]
    /\ requests = [s \in {1, 2} |-> <<>>]
    /\ pages = [s \in {1, 2} |-> <<>>]
    /\ yielded = [s \in {1, 2} |-> <<>>]
    /\ failure = [s \in {1, 2} |-> "none"]
    /\ stats = [s \in {1, 2} |-> RunStatsDefault]

SpecPerm == InitPerm /\ [][NextStats]_vars

\* Two streams over one newest-first listing: stream 1 as Requests::runs builds
\* it, stream 2 with the |_| true predicate, both folded by run_stats.
InitCmp ==
    /\ NoDispatcher /\ NoFilter /\ Idle
    /\ since \in Times
    /\ listing = "chronological"
    /\ server = [u \in Urls |-> Unknown]
    /\ policy = [s \in {1, 2} |-> IF s = 1 THEN "runs" ELSE "always"]
    /\ InitStream({1, 2})

SpecCmp == InitCmp /\ [][Next]_vars

\* Two runs of one stream: the same listing, the same predicate and the same
\* consumer, each meeting its own transport failures.
InitTwins ==
    /\ NoDispatcher /\ NoFilter /\ Idle
    /\ since \in Times
    /\ listing = "chronological"
    /\ server = [u \in Urls |-> Unknown]
    /\ \E p \in {"runs", "always"} : policy = [s \in {1, 2} |-> p]
    /\ InitStream({1, 2})

SpecTwins == InitTwins /\ [][Next]_vars

\* ------------------------------------------------------- Stats dispatcher
\* The Stats command: one pipeline per filtered workflow, run_stats over the
\* workflow's run listing, driven by for_each_concurrent.  A pipeline is the
\* stream of its workflow, over the workflow's own run listing.

HeaderRow == [kind |-> "header"]

\* format of an Option<Duration> column: the duration, or "-" when absent.
Column(opt) == IF opt.tag = "None" THEN "-" ELSE opt.v

\* The row written for a workflow from the RunStats of its pipeline.
Row(w, st) ==
    [kind |-> "row", name |-> w, count |-> st.count, total |-> st.total,
     min |-> Column(st.min), max |-> Column(st.max)]

TotalLine(total) == [kind |-> "total", minutes |-> total \div SecsPerMinute]

InitDispatch ==
    /\ NoFilter /\ Idle
    /\ since = MaxTime \div 2
    /\ listing = "skewed"
    /\ server = [u \in WorkflowUrls |-> Unknown]
    /\ policy = [s \in Workflows |-> "runs"]
    /\ InitStreamAt(Workflows, [w \in Workflows |-> w])
    /\ queue = [i \in 1..NumWorkflows |-> i]
    /\ futures = {}
    /\ sum = 0
    /\ output = <<HeaderRow>>
    /\ process = "running"

\* Spawn that pulls the next workflow whatever the number of pipelines running.
SpawnUnbounded ==
    /\ process = "running"
    /\ queue # <<>>
    /\ futures' = futures \cup {Head(queue)}
    /\ queue' = Tail(queue)
    /\ UNCHANGED <<since, listing, server, policy, state, pc, response, next,
                   inner, inflight, requests, pages, yielded, failure, stats,
                   sum, output, process, filter, extras>>

\* for_each_concurrent pulls the next workflow and starts its pipeline, only
\* while fewer than the limit are running.
Spawn ==
    /\ process = "running"
    /\ queue # <<>>
    /\ Cardinality(futures) < ConcurrencyLimit
    /\ futures' = futures \cup {Head(queue)}
    /\ queue' = Tail(queue)
    /\ UNCHANGED <<since, listing, server, policy, state, pc, response, next,
                   inner, inflight, requests, pages, yielded, failure, stats,
                   sum, output, process, filter, extras>>

\* A running pipeline is polled and moves on without ending.
Advances(s) ==
    /\ process = "running"
    /\ s \in futures
    /\ \/ PollFetch(s)
       \/ SendOk(s)
       \/ JsonOk(s)
    /\ UNCHANGED <<dispatcher, filter, extras>>

\* run_stats folds the next run of a running pipeline; the panic of
\* Run::duration unwinds through the dispatcher and main.
Folds(s) ==
    /\ process = "running"
    /\ s \in futures
    /\ Yield(s)
    /\ process' = IF pc'[s] = "panic" THEN "aborted" ELSE process
    /\ UNCHANGED <<queue, futures, sum, output, filter, extras>>

\* RefCell::borrow_mut hands a mutable borrow of the cell to a pipeline; the
\* borrow ends when the RefMut is dropped, at the end of the statement.
borrow_mut(cells, cell, s) == [cells EXCEPT ![cell] = @ \cup {s}]
release(cells, cell, s) == [cells EXCEPT ![cell] = @ \ {s}]

\* Completes that keeps its borrow of the writer after writing the row.
CompletesHolding(s) ==
    /\ process = "running"
    /\ s \in futures
    /\ \/ PollEnd(s)
       \/ SendFail(s)
       \/ JsonFail(s)
    /\ sum' = sum + stats[s].total
    /\ output' = Append(output, Row(s, stats[s]))
    /\ borrowed' = borrow_mut(release(borrow_mut(borrowed,
                       "sum", s), "sum", s), "writer", s)
    /\ futures' = futures \ {s}
    /\ UNCHANGED <<queue, process, filter,
                   token, exit_code, timestamp, now, found, repos>>

\* Completes that stores its total in the accumulator instead of adding it.
CompletesOverwrites(s) ==
    /\ process = "running"
    /\ s \in futures
    /\ \/ PollEnd(s)
       \/ SendFail(s)
       \/ JsonFail(s)
    /\ sum' = stats[s].total
    /\ output' = Append(output, Row(s, stats[s]))
    /\ futures' = futures \ {s}
    /\ UNCHANGED <<queue, process, filter, extras>>

\* Completes that writes the row and leaves the accumulator alone.
CompletesNoSum(s) ==
    /\ process = "running"
    /\ s \in futures
    /\ \/ PollEnd(s)
       \/ SendFail(s)
       \/ JsonFail(s)
    /\ output' = Append(output, Row(s, stats[s]))
    /\ futures' = futures \ {s}
    /\ UNCHANGED <<queue, sum, process, filter, extras>>

\* Completes that writes its row at the place of the workflow in the input.
CompletesInOrder(s) ==
    /\ process = "running"
    /\ s \in futures
    /\ \/ PollEnd(s)
       \/ SendFail(s)
       \/ JsonFail(s)
    /\ sum' = sum + stats[s].total
    /\ LET before == SelectSeq(output, LAMBDA l : l.kind # "row" \/ l.name < s)
           after == SelectSeq(output, LAMBDA l : l.kind = "row" /\ l.name > s)
       IN  output' = before \o <<Row(s, stats[s])>> \o after
    /\ futures' = futures \ {s}
    /\ UNCHANGED <<queue, process, filter, extras>>

\* The stream of a running pipeline ends, by exhaustion, by the policy or by a
\* failed request: run_stats returns, and in the same poll the pipeline adds
\* its total to the accumulator and writes its row.
Completes(s) ==
    /\ process = "running"
    /\ s \in futures
    /\ \/ PollEnd(s)
       \/ SendFail(s)
       \/ JsonFail(s)
    /\ sum' = sum + stats[s].total
    /\ output' = Append(output, Row(s, stats[s]))
    /\ borrowed' = release(borrow_mut(release(borrow_mut(borrowed,
                       "sum", s), "sum", s), "writer", s), "writer", s)
    /\ futures' = futures \ {s}
    /\ UNCHANGED <<queue, process, filter,
                   token, exit_code, timestamp, now, found, repos>>

\* Every workflow was pulled and every pipeline finished: the dispatcher
\* returns and the command prints the grand total.
Finishes ==
    /\ process = "running"
    /\ queue = <<>>
    /\ futures = {}
    /\ process' = "finished"
    /\ output' = Append(output, TotalLine(sum))
    /\ UNCHANGED <<since, listing, server, policy, state, pc, response, next,
                   inner, inflight, requests, pages, yielded, failure, stats,
                   queue, futures, sum, filter, extras>>

NextDispatch ==
    \/ Spawn
    \/ \E s \in Streams : Advances(s)
    \/ \E s \in Streams : Folds(s)
    \/ \E s \in Streams : Completes(s)
    \/ Finishes

SpecDispatch == InitDispatch /\ [][NextDispatch]_vars

\* Every request that was sent is answered, and the executor keeps polling
\* the dispatcher while it has something to do.
FairDispatch == InitDispatch /\ [][NextDispatch]_vars /\ WF_vars(NextDispatch)

\* ------------------------------------------------------------- properties
\* What the properties say about a page, stated on the page itself.

\* The response carries a link entry whose relation is next.
HasNextEntry(page) ==
    /\ page.link.kind = "links"
    /\ \E i \in 1..Len(page.link.values) :
          /\ page.link.values[i].rel.tag = "Some"
          /\ "next" \in page.link.values[i].rel.v

\* The target of the first link entry whose relation is next.
NextTarget(page) ==
    LET vs == page.link.values
        i == CHOOSE j \in 1..Len(vs) :
                /\ vs[j].rel.tag = "Some" /\ "next" \in vs[j].rel.v
                /\ \A k \in 1..(j - 1) : ~(vs[k].rel.tag = "Some" /\ "next" \in vs[k].rel.v)
    IN  vs[i].link

\* The policy of stream s approves of the items of a page.
Approves(s, items) ==
    \/ policy[s] = "always"
    \/ \E i \in 1..Len(items) : items[i].created_at >= since

\* The page the remote API answered the k-th request of stream s with.
PageOf(s, k) == server[requests[s][k].url]
ItemsOf(s, k) == PageOf(s, k).body.workflow_runs

\* The items of the first n pages stream s fetched, page after page.
RECURSIVE ItemsUpTo(_, _)
ItemsUpTo(s, n) == IF n = 0 THEN <<>> ELSE ItemsUpTo(s, n - 1) \o ItemsOf(s, n)

\* The stream is between two pages, or over, with its last page decoded.
Settled(s) ==
    /\ pc[s] \in {"ready", "done"}
    /\ failure[s] = "none"
    /\ Len(pages[s]) >= 1

\* C1: after a page is fetched and decoded, the cursor is Fetch(request for the
\* next link) exactly when the response carries a next entry and the
\* continuation predicate approves of the items of the page; otherwise it is End.
C1_NextCursor ==
    \A s \in Streams :
        Settled(s) =>
            LET page == PageOf(s, Len(requests[s]))
            IN  IF HasNextEntry(page) /\ Approves(s, page.body.workflow_runs)
                THEN /\ state[s].tag = "Fetch"
                     /\ state[s].builder.url = NextTarget(page)
                ELSE state[s] = End

\* A second page that carries a next entry was rejected by the predicate, after
\* a first page whose next entry, listed after a prev entry, was followed.
C1_Witness ==
    \E s \in Streams :
        /\ Settled(s)
        /\ policy[s] = "runs"
        /\ Len(requests[s]) = 2
        /\ Len(PageOf(s, 1).link.values) = 2
        /\ requests[s][2].url = 2
        /\ HasNextEntry(PageOf(s, 2))
        /\ state[s] = End

\* C2: a stream has at most one request in flight, and its request for page
\* n+1 is sent only after page n has been received and decoded.
C2_Sequential ==
    \A s \in Streams :
        /\ inflight[s] <= 1
        /\ Len(requests[s]) <= Len(pages[s]) + 1
        /\ inflight[s] = 1 => inner[s] = <<>>

\* The third request of a stream is in flight, two pages decoded.
C2_Witness ==
    \E s \in Streams :
        /\ inflight[s] = 1
        /\ Len(requests[s]) = 3
        /\ Len(pages[s]) = 2

\* C3: the items a stream has handed out, followed by those of the current page
\* still to come, are the items of the pages it fetched, in fetch order and in
\* the order the server listed them; a stream that is over has handed out all.
C3_ItemOrder ==
    \A s \in Streams :
        /\ yielded[s] \o inner[s] = ItemsUpTo(s, Len(pages[s]))
        /\ pc[s] = "done" => inner[s] = <<>>

\* A stream is over that fetched an empty page and then a page of two
\* different items.
C3_Witness ==
    \E s \in Streams :
        /\ pc[s] = "done"
        /\ Len(pages[s]) = 2
        /\ Len(pages[s][2]) = 2
        /\ pages[s][2][1] # pages[s][2][2]
        /\ Len(yielded[s]) = 2

\* A page stream s decoded gives no next entry, or the predicate rejects it.
Stops(s) ==
    \E k \in 1..Len(pages[s]) :
        \/ ~HasNextEntry(PageOf(s, k))
        \/ ~Approves(s, ItemsOf(s, k))

\* C4: once the server has returned a page without a next link, or the
\* predicate has rejected a page, or a request has failed, the stream reaches
\* its end.
C4_Terminates ==
    \A s \in {1} : (Stops(s) \/ failure[s] # "none") ~> (pc[s] = "done")

\* A stream is over after three pages, the last one rejected by the predicate.
C4_Witness ==
    /\ pc[1] = "done"
    /\ failure[1] = "none"
    /\ Len(pages[1]) = 3
    /\ HasNextEntry(PageOf(1, 3))

\* C5: a failed request or an undecodable body ends the stream there: the
\* consumer has received the items of the pages decoded before and nothing
\* else, the failed request is the last one sent, and none is in flight.
C5_FailureEndsStream ==
    \A s \in Streams :
        failure[s] # "none" =>
            /\ pc[s] = "done"
            /\ inflight[s] = 0
            /\ Len(requests[s]) = Len(pages[s]) + 1
            /\ yielded[s] = ItemsUpTo(s, Len(pages[s]))
            /\ \A i \in 1..Len(yielded[s]) : yielded[s][i] \in Runs

\* The body of the second page did not decode, after a first page with items.
C5_Witness ==
    \E s \in Streams :
        /\ failure[s] = "decode"
        /\ Len(requests[s]) = 2
        /\ Len(yielded[s]) >= 1

\* Stream s went on after its k-th page: it sent a further request, or holds
\* the cursor for one.
Continued(s, k) ==
    \/ k < Len(requests[s])
    \/ k = Len(requests[s]) /\ Settled(s) /\ state[s].tag = "Fetch"

\* The k-th page of stream s is decoded and what follows it is decided.
Decided(s, k) ==
    /\ k \in 1..Len(pages[s])
    /\ k = Len(requests[s]) => Settled(s)

\* C6: the predicate of the time-windowed run listing lets the stream go on
\* after a page (that carries a next link) exactly when a run of the page was
\* created at or after the cutoff: not after a page of runs all created before
\* the cutoff, not after an empty page, and after a page with a run created at
\* the cutoff.
C6_RunsPredicate ==
    \A s \in Streams :
        policy[s] = "runs" =>
            \A k \in 1..Len(pages[s]) :
                (Decided(s, k) /\ HasNextEntry(PageOf(s, k))) =>
                    LET runs == ItemsOf(s, k)
                    IN  /\ Continued(s, k) <=>
                              \E i \in 1..Len(runs) : runs[i].created_at >= since
                        /\ (\A i \in 1..Len(runs) : runs[i].created_at < since)
                              => ~Continued(s, k)
                        /\ runs = <<>> => ~Continued(s, k)
                        /\ (\E i \in 1..Len(runs) : runs[i].created_at = since)
                              => Continued(s, k)

\* The stream went on after a page whose newest run was created at the cutoff
\* and whose other run was created before it.
C6_Witness ==
    \E s \in Streams :
        /\ policy[s] = "runs"
        /\ Len(requests[s]) = 2
        /\ Len(pages[s]) >= 1
        /\ HasNextEntry(PageOf(s, 1))
        /\ Len(ItemsOf(s, 1)) = 2
        /\ ItemsOf(s, 1)[1].created_at = since
        /\ ItemsOf(s, 1)[2].created_at < since

\* C7: under the always-continue policy and with no failure, a stream that is
\* over has requested the endpoint and then every page a next link led to, up
\* to the first page without a next link, and has handed out the items of all
\* of them.
C7_AlwaysExhausts ==
    \A s \in Streams :
        (policy[s] = "always" /\ pc[s] = "done" /\ failure[s] = "none") =>
            LET n == Len(requests[s])
            IN  /\ n >= 1
                /\ requests[s][1].url = 1
                /\ \A k \in 1..(n - 1) :
                      /\ HasNextEntry(PageOf(s, k))
                      /\ requests[s][k + 1].url = NextTarget(PageOf(s, k))
                /\ ~HasNextEntry(PageOf(s, n))
                /\ yielded[s] = ItemsUpTo(s, n)

\* An always-continue stream is over after three pages, the second one empty.
C7_Witness ==
    \E s \in Streams :
        /\ policy[s] = "always"
        /\ pc[s] = "done"
        /\ failure[s] = "none"
        /\ Len(requests[s]) = 3
        /\ ItemsOf(s, 2) = <<>>
        /\ Len(yielded[s]) = 2

\* Both streams over the listing are over and met no failure.
BothDone ==
    /\ pc[1] = "done" /\ pc[2] = "done"
    /\ failure[1] = "none" /\ failure[2] = "none"

\* C8 as claimed: over a newest-first listing, the statistics of the stream
\* that stops at the first page without a run at or after the cutoff equal
\* those of the stream that fetches every page.
C8_Original == BothDone => stats[1] = stats[2]

\* No page of the listing that carries a next link is empty.
NoEmptyLinkedPage ==
    \A u \in JsonUrls(server) :
        HasNextEntry(server[u]) => server[u].body.workflow_runs # <<>>

\* C8, amended: over a newest-first listing none of whose pages that carry a
\* next link is empty, the statistics of the two streams are equal.
C8_EarlyStopLosesNothing ==
    (BothDone /\ NoEmptyLinkedPage) => stats[1] = stats[2]

\* The time-windowed stream stopped after a second page of one run older than
\* the cutoff, the other one went on to a third page, and both counted the run
\* of the first page.
C8_Witness ==
    /\ BothDone
    /\ NoEmptyLinkedPage
    /\ Len(requests[1]) = 2
    /\ Len(requests[2]) = 3
    /\ Len(yielded[2]) = 2
    /\ stats[1].count = 1
    /\ stats[2] = stats[1]

\* The runs of a stream that run_stats keeps, by position.
Kept(runs) == {i \in 1..Len(runs) : runs[i].created_at >= since}
Elapsed(run) == run.updated_at - run.created_at

RECURSIVE SumElapsed(_, _)
SumElapsed(runs, is) ==
    IF is = {} THEN 0
    ELSE LET i == CHOOSE x \in is : TRUE
         IN  Elapsed(runs[i]) + SumElapsed(runs, is \ {i})

\* C9: run_stats returns the number of runs created at or after the cutoff, the
\* sum of their durations and the least and the greatest of their durations;
\* the zero value when no run of the stream qualifies.
C9_RunStats ==
    \A s \in Streams :
        pc[s] = "done" =>
            LET runs == yielded[s]
                K == Kept(runs)
            IN  /\ inner[s] = <<>>
                /\ stats[s].count = Cardinality(K)
                /\ stats[s].total = SumElapsed(runs, K)
                /\ K = {} => stats[s] = [count |-> 0, total |-> 0,
                                         min |-> None, max |-> None]
                /\ K # {} =>
                      /\ stats[s].min.tag = "Some"
                      /\ stats[s].max.tag = "Some"
                      /\ \E i \in K : Elapsed(runs[i]) = stats[s].min.v
                      /\ \E i \in K : Elapsed(runs[i]) = stats[s].max.v
                      /\ \A i \in K : /\ stats[s].min.v <= Elapsed(runs[i])
                                      /\ Elapsed(runs[i]) <= stats[s].max.v

\* run_stats returned for a stream of three runs, one before the cutoff and
\* two it kept, of different durations.
C9_Witness ==
    \E s \in Streams :
        /\ pc[s] = "done"
        /\ Len(yielded[s]) = 3
        /\ stats[s].count = 2
        /\ stats[s].total = 1
        /\ stats[s].min = Some(0)
        /\ stats[s].max = Some(1)

\* C10: the accumulator of run_stats always has count = 0 exactly when min and
\* max are both absent, total = 0 when count = 0, and min <= max when both are
\* present.
C10_StatsInvariant ==
    \A s \in Streams :
        /\ stats[s].count = 0 <=> (stats[s].min.tag = "None" /\ stats[s].max.tag = "None")
        /\ stats[s].count = 0 => stats[s].total = 0
        /\ (stats[s].min.tag = "Some" /\ stats[s].max.tag = "Some")
              => stats[s].min.v <= stats[s].max.v

\* The fold is under way with two runs taken in, min below max.
C10_Witness ==
    \E s \in Streams :
        /\ pc[s] = "ready"
        /\ inner[s] # <<>>
        /\ stats[s].count = 2
        /\ stats[s].min.tag = "Some"
        /\ stats[s].max.tag = "Some"
        /\ stats[s].min.v < stats[s].max.v

\* C11: run_stats does not depend on the order the runs arrive in: two folds
\* over the same runs and the same cutoff, the runs handed over in different
\* orders, end with the same count, total, min and max.
C11_OrderIndependent ==
    \A a, b \in Streams :
        (pc[a] = "done" /\ pc[b] = "done") => stats[a] = stats[b]

C11_Witness ==
    /\ pc[1] = "done" /\ pc[2] = "done"
    /\ Len(yielded[1]) = 3
    /\ yielded[1] # yielded[2]
    /\ yielded[1][1] # yielded[2][1]
    /\ stats[1].count >= 2
    /\ stats[1].min # stats[1].max
    /\ Kept(yielded[1]) # 1..Len(yielded[1])

\* C12: no result holds a negative duration.  A run that finished before it
\* was created and that run_stats keeps stops the fold on the spot
\* (Duration::to_std is Err and the unwrap panics): its duration is never
\* turned into a value, it is in no RunStats, and run_stats never returns
\* after it.
Inverted(run) == run.updated_at < run.created_at

C12_NoNegativeDuration ==
    \A s \in Streams :
        /\ stats[s].total >= 0
        /\ stats[s].min.tag = "Some" => stats[s].min.v >= 0
        /\ stats[s].max.tag = "Some" => stats[s].max.v >= 0
        /\ \A i \in Kept(yielded[s]) :
               Inverted(yielded[s][i]) =>
                   /\ pc[s] = "panic"
                   /\ i = Len(yielded[s])
                   /\ stats[s].count = Cardinality(Kept(yielded[s])) - 1
                   /\ stats[s].total =
                          SumElapsed(yielded[s], Kept(yielded[s]) \ {i})
        /\ pc[s] = "panic" =>
               /\ yielded[s] # <<>>
               /\ Inverted(yielded[s][Len(yielded[s])])

C12_Witness ==
    /\ pc[1] = "panic"
    /\ Len(yielded[1]) = 3
    /\ inner[1] = <<>>
    /\ stats[1].count = 1
    /\ \E i \in 1..2 : Inverted(yielded[1][i]) /\ i \notin Kept(yielded[1])

\* ------------------------------------------------- two-page run listing
\* The runs created before the cutoff and those created at or after it.
Older(cutoff) == {r \in ListedRuns : r.created_at < cutoff}
Recent(cutoff) == {r \in ListedRuns : r.created_at >= cutoff}

\* A listing of two pages: the first holds three runs, two of them created at
\* or after the cutoff, and a next link to the second, which holds one run
\* created before the cutoff and no next link.
TwoPageListing(cutoff, srv) ==
    \E p1 \in [1..3 -> ListedRuns] : \E p2 \in [1..1 -> Older(cutoff)] :
        /\ Cardinality({i \in 1..3 : p1[i] \in Recent(cutoff)}) = 2
        /\ srv = [u \in Urls |->
                    IF u = 1 THEN Page(LinkHeader(<<LinkValue(2, Some({"next"}))>>), Json(p1))
                    ELSE IF u = 2 THEN Page(NoLinkHeader, Json(p2))
                    ELSE Unknown]

InitTwoPages ==
    /\ NoDispatcher /\ NoFilter /\ Idle
    /\ since \in Times
    /\ listing = "any"
    /\ TwoPageListing(since, server)
    /\ policy = [s \in {1} |-> "runs"]
    /\ InitStream({1})

\* The time-windowed run listing over any remote listing, or over the
\* two-page listing.
SpecRuns == (Init \/ InitTwoPages) /\ [][Next]_vars

\* ------------------------------------------------------ token and exit code
\* A command from its start: it reads GITHUB_TOKEN, builds its Requests and
\* its stream, drives the stream to its end, and main exits.
NotBuilt == [tag |-> "NotBuilt"]
ErrorLine(msg) == [kind |-> "error", msg |-> msg]

InitToken ==
    /\ NoFilter
    /\ since \in Times
    /\ listing = "chronological"
    /\ server = [u \in Urls |-> Unknown]
    /\ policy \in [{1} -> {"runs", "always"}]
    /\ state = [s \in {1} |-> NotBuilt]
    /\ pc = [s \in {1} |-> "ready"]
    /\ response = [s \in {1} |-> NoResponse]
    /\ next = [s \in {1} |-> None]
    /\ inner = [s \in {1} |-> <<>>]
    /\ inflight = [s \in {1} |-> 0]
    /\ requests = [s \in {1} |-> <<>>]
    /\ pages = [s \in {1} |-> <<>>]
    /\ yielded = [s \in {1} |-> <<>>]
    /\ failure = [s \in {1} |-> "none"]
    /\ stats = [s \in {1} |-> RunStatsDefault]
    /\ queue = <<>>
    /\ futures = {}
    /\ sum = 0
    /\ output = <<>>
    /\ process = "starting"
    /\ token \in {None, Some("secret")}
    /\ exit_code = None
    /\ timestamp = None
    /\ now = None
    /\ borrowed = NoBorrows
    /\ found = EmptyMap
    /\ repos = None

\* env::var("GITHUB_TOKEN") with the ? operator: without the variable the
\* command returns the error, main prints it and exits with code 1; with it
\* the command builds its Requests and the first request of its stream.
ReadsToken ==
    /\ process = "starting"
    /\ IF token.tag = "None"
       THEN /\ process' = "exited"
            /\ exit_code' = Some(1)
            /\ output' = Append(output, ErrorLine("Please provide a GITHUB_TOKEN env variable"))
            /\ state' = state
       ELSE /\ process' = "running"
            /\ exit_code' = exit_code
            /\ output' = output
            /\ state' = [s \in Streams |-> Fetch(get(1))]
    /\ UNCHANGED <<since, listing, server, policy, pc, response, next, inner,
                   inflight, requests, pages, yielded, failure, stats,
                   queue, futures, sum, filter,
                   token, timestamp, now, borrowed, found, repos>>

\* The command drives its stream.
Drives(s) ==
    /\ process = "running"
    /\ \/ PollFetch(s)
       \/ PollEnd(s)
       \/ SendFail(s)
       \/ SendOk(s)
       \/ JsonFail(s)
       \/ JsonOk(s)
       \/ Yield(s)
    /\ UNCHANGED <<dispatcher, filter, extras>>

\* The stream is over, the command returns Ok(()) and main returns.
ExitsOk ==
    /\ process = "running"
    /\ \A s \in Streams : pc[s] = "done"
    /\ process' = "exited"
    /\ exit_code' = Some(0)
    /\ UNCHANGED <<since, listing, server, policy, state, pc, response, next,
                   inner, inflight, requests, pages, yielded, failure, stats,
                   queue, futures, sum, output, filter,
                   token, timestamp, now, borrowed, found, repos>>

NextToken ==
    \/ ReadsToken
    \/ \E s \in Streams : Drives(s)
    \/ ExitsOk

SpecToken == InitToken /\ [][NextToken]_vars

\* ----------------------------------------------- date_or_first_of_the_month
\* The text of a --since argument is a sequence of tokens: runs of digits,
\* "-" and other characters.  Number gives the value of a run of digits.
Number ==
    "2019" :> 2019 @@ "2020" :> 2020 @@ "00" :> 0 @@ "01" :> 1 @@ "02" :> 2
    @@ "03" :> 3 @@ "12" :> 12 @@ "13" :> 13 @@ "28" :> 28 @@ "29" :> 29
    @@ "30" :> 30 @@ "31" :> 31 @@ "32" :> 32
YearTokens == {"2019", "2020"}
MonthTokens == {"00", "02", "03", "12", "13"}
DayTokens == {"00", "01", "12", "28", "29", "30", "31", "32"}

Texts ==
    {<<y, "-", m, "-", d>> : y \in YearTokens, m \in MonthTokens, d \in DayTokens}
    \cup {<<>>, <<"-">>, <<"x">>, <<"2020">>, <<"2020", "-", "03">>,
          <<"2020", "-", "03", "-">>, <<"2020", "-", "03", "-", "12", "x">>,
          <<"2020", "x", "03", "x", "12">>, <<"12", "-", "03", "-", "2020">>,
          <<"x", "-", "03", "-", "12">>, <<"-", "2020", "-", "03", "-", "12">>}

\* The clock: the dates Utc::now() may give, with the hour of the day.
Clock ==
    {[year |-> 2020, month |-> 3, day |-> 12, hour |-> 9],
     [year |-> 2020, month |-> 3, day |-> 1, hour |-> 0],
     [year |-> 2019, month |-> 12, day |-> 31, hour |-> 23],
     [year |-> 2020, month |-> 2, day |-> 29, hour |-> 12]}

\* The calendar of chrono::NaiveDate.
is_leap_year(y) == y % 4 = 0 /\ (y % 100 # 0 \/ y % 400 = 0)
days_in_month(y, m) ==
    IF m = 2 THEN (IF is_leap_year(y) THEN 29 ELSE 28)
    ELSE IF m \in {4, 6, 9, 11} THEN 30 ELSE 31

\* NaiveDate::parse_from_str(ts, "%Y-%m-%d"): the whole text has to be a
\* year, a month and a day of the calendar, with "-" between them.
parse_from_str(text) ==
    IF /\ Len(text) = 5
       /\ text[2] = "-" /\ text[4] = "-"
       /\ text[1] \in YearTokens
       /\ text[3] \in DOMAIN Number /\ text[5] \in DOMAIN Number
       /\ Number[text[3]] \in 1..12
       /\ Number[text[5]] \in 1..days_in_month(Number[text[1]], Number[text[3]])
    THEN Ok([year |-> Number[text[1]], month |-> Number[text[3]], day |-> Number[text[5]]])
    ELSE Err

\* Utc.ymd(y, m, d).and_hms(h, min, s)
ymd_and_hms(y, m, d, h, min, s) ==
    [year |-> y, month |-> m, day |-> d, hour |-> h, minute |-> min, second |-> s]

\* date_or_first_of_the_month falling back on the day of today.
date_or_today(ts, clock) ==
    IF ts.tag = "Some" /\ parse_from_str(ts.v).tag = "Ok"
    THEN LET fixed == parse_from_str(ts.v).v
         IN  ymd_and_hms(fixed.year, fixed.month, fixed.day, 0, 0, 0)
    ELSE ymd_and_hms(clock.year, clock.month, clock.day, 0, 0, 0)

date_or_first_of_the_month(ts, clock) ==
    IF ts.tag = "Some" /\ parse_from_str(ts.v).tag = "Ok"
    THEN LET fixed == parse_from_str(ts.v).v
         IN  ymd_and_hms(fixed.year, fixed.month, fixed.day, 0, 0, 0)
    ELSE ymd_and_hms(clock.year, clock.month, 1, 0, 0, 0)

\* A command is given its --since argument and computes its cutoff.
InitDate ==
    /\ NoDispatcher /\ NoFilter
    /\ since = None
    /\ listing = "any"
    /\ server = [u \in Urls |-> Unknown]
    /\ policy = [s \in {1} |-> "runs"]
    /\ InitStream({1})
    /\ token = Some("secret")
    /\ exit_code = None
    /\ timestamp \in {None} \cup {Some(text) : text \in Texts}
    /\ now \in Clock
    /\ borrowed = NoBorrows
    /\ found = EmptyMap
    /\ repos = None

ComputesSince ==
    /\ since = None
    /\ since' = date_or_first_of_the_month(timestamp, now)
    /\ UNCHANGED <<listing, server, policy, state, pc, response, next, inner,
                   inflight, requests, pages, yielded, failure, stats,
                   dispatcher, filter,
                   token, exit_code, timestamp, now, borrowed, found, repos>>

NextDate == ComputesSince

SpecDate == InitDate /\ [][NextDate]_vars

\* ----------------------------------------------------------- Requests::repos
\* A hit of the code search: the full name of its repository and the path of
\* the file. String order on full names is the order of RepoOrder.
RepoOrder == <<"org/a", "org/b", "org/c">>
RepoNames == {RepoOrder[i] : i \in 1..Len(RepoOrder)}
Rank(name) == CHOOSE i \in 1..Len(RepoOrder) : RepoOrder[i] = name
Paths == {"a", "b"}
Hits == [repository : [full_name : RepoNames], path : Paths]

\* push_entry that leaves out a path the repository already has.
push_entry_once(map, name, path) ==
    IF name \in DOMAIN map
    THEN IF \E i \in 1..Len(map[name]) : map[name][i] = path
         THEN map
         ELSE [map EXCEPT ![name] = Append(@, path)]
    ELSE [n \in DOMAIN map \cup {name} |-> IF n = name THEN <<path>> ELSE map[n]]

\* state.entry(full_name).or_insert_with(Vec::new).push(path)
push_entry(map, name, path) ==
    IF name \in DOMAIN map
    THEN [map EXCEPT ![name] = Append(@, path)]
    ELSE [n \in DOMAIN map \cup {name} |-> IF n = name THEN <<path>> ELSE map[n]]

\* BTreeMap::into_iter: the keys in ascending order.
Ascending(names) ==
    CHOOSE q \in [1..Cardinality(names) -> names] :
        \A i, j \in 1..Cardinality(names) : i < j => Rank(q[i]) < Rank(q[j])

\* .into_iter().map(|(full_name, workflows)| Repo {..}).collect()
collect_repos(map) ==
    LET keys == Ascending(DOMAIN map)
    IN  [i \in 1..Len(keys) |-> [full_name |-> keys[i], workflows |-> map[keys[i]]]]

\* Requests::repos over a stream of search hits that are in memory.
InitRepos ==
    /\ NoDispatcher /\ NoFilter
    /\ since = 0
    /\ listing = "any"
    /\ server = [u \in Urls |-> Unknown]
    /\ policy = [s \in {1} |-> "always"]
    /\ state = [s \in {1} |-> End]
    /\ pc = [s \in {1} |-> "ready"]
    /\ response = [s \in {1} |-> NoResponse]
    /\ next = [s \in {1} |-> None]
    /\ inner \in [{1} -> SeqsUpTo(Hits, MaxHits)]
    /\ inflight = [s \in {1} |-> 0]
    /\ requests = [s \in {1} |-> <<>>]
    /\ pages = [s \in {1} |-> <<>>]
    /\ yielded = [s \in {1} |-> <<>>]
    /\ failure = [s \in {1} |-> "none"]
    /\ stats = [s \in {1} |-> RunStatsDefault]
    /\ token = Some("secret")
    /\ exit_code = None
    /\ timestamp = None
    /\ now = None
    /\ borrowed = NoBorrows
    /\ found = EmptyMap
    /\ repos = None

\* The fold closure takes the next hit of the stream.
FoldsHit(s) ==
    /\ pc[s] = "ready"
    /\ inner[s] # <<>>
    /\ LET item == Head(inner[s])
       IN  /\ inner' = [inner EXCEPT ![s] = Tail(@)]
           /\ yielded' = [yielded EXCEPT ![s] = Append(@, item)]
           /\ found' = push_entry(found, item.repository.full_name, item.path)
    /\ UNCHANGED <<since, listing, server, policy, state, pc, response, next,
                   inflight, requests, pages, failure, stats,
                   dispatcher, filter,
                   token, exit_code, timestamp, now, borrowed, repos>>

\* The stream is over: the fold returns the map and repos collects it.
Collects(s) ==
    /\ PollEnd(s)
    /\ repos' = Some(collect_repos(found))
    /\ UNCHANGED <<dispatcher, filter,
                   token, exit_code, timestamp, now, borrowed, found>>

NextRepos ==
    \/ \E s \in Streams : FoldsHit(s)
    \/ \E s \in Streams : Collects(s)

SpecRepos == InitRepos /\ [][NextRepos]_vars

\* ------------------------------------------------------ filtered_workflows
\* Strings are sequences of characters; "C" and "T" are the upper-case forms
\* of "c" and "t".
Chars == {"c", "C", "t", "T"}
Strings == SeqsUpTo(Chars, MaxName)

\* char::to_lowercase and str::to_lowercase.
lower(ch) == IF ch = "C" THEN "c" ELSE IF ch = "T" THEN "t" ELSE ch
to_lowercase(str) == [i \in 1..Len(str) |-> lower(str[i])]

\* str::contains: the pattern is a contiguous part of the string.
contains(str, pat) ==
    \E k \in 0..(Len(str) - Len(pat)) : SubSeq(str, k + 1, k + Len(pat)) = pat

\* A workflow of the repository, as the listing of workflows returns it.
WorkflowsOf(names) == [i \in 1..Len(names) |-> [id |-> i, name |-> names[i]]]

\* The filter closure comparing the name as it is with the lower-cased filter.
matched_exact(workflow, flow) ==
    IF workflow.tag = "None" THEN TRUE
    ELSE contains(flow.name, to_lowercase(workflow.v))

\* The closure of filtered_workflows: workflow.as_ref().map_or(true, |name|
\* flow.name.to_lowercase().contains(&name.to_lowercase())).
matched(workflow, flow) ==
    IF workflow.tag = "None" THEN TRUE
    ELSE contains(to_lowercase(flow.name), to_lowercase(workflow.v))

InitFilter ==
    /\ NoDispatcher /\ Idle
    /\ since = 0
    /\ listing = "any"
    /\ server = [u \in Urls |-> Unknown]
    /\ policy = [s \in {1} |-> "always"]
    /\ InitStream({1})
    /\ name_filter \in {None} \cup {Some(n) : n \in Strings}
    /\ \E names \in SeqsUpTo(Strings, TestFlows) : workflows_in = WorkflowsOf(names)
    /\ workflows_seen = 0
    /\ workflows_out = <<>>

\* StreamExt::filter polls the next workflow and lets it through when the
\* closure says so.
FilterNext ==
    /\ workflows_seen < Len(workflows_in)
    /\ LET flow == workflows_in[workflows_seen + 1]
       IN  workflows_out' = IF matched(name_filter, flow)
                            THEN Append(workflows_out, flow)
                            ELSE workflows_out
    /\ workflows_seen' = workflows_seen + 1
    /\ UNCHANGED <<since, listing, server, policy, state, pc, response, next,
                   inner, inflight, requests, pages, yielded, failure, stats,
                   dispatcher, name_filter, workflows_in, extras>>

NextFilter == FilterNext

SpecFilter == InitFilter /\ [][NextFilter]_vars

\* ----------------------------------------------------------- List command
\* The List command: the runs stream of one workflow, every run printed as the
\* stream yields it.
RunLine(run) == [kind |-> "run", run |-> run, duration |-> duration(run).v]

InitList ==
    /\ NoFilter /\ Idle
    /\ since \in Times
    /\ listing = "skewed"
    /\ server = [u \in WorkflowUrls |-> Unknown]
    /\ policy = [s \in {1} |-> "runs"]
    /\ InitStream({1})
    /\ queue = <<>>
    /\ futures = {}
    /\ sum = 0
    /\ output = <<>>
    /\ process = "running"

\* The closure of for_each_concurrent prints the run the stream yields; it has
\* nothing to wait for.  Run::duration panics on a run that finished before it
\* was created.
ShowsRun(s) ==
    /\ pc[s] = "ready"
    /\ inner[s] # <<>>
    /\ LET run == Head(inner[s])
       IN  /\ inner' = [inner EXCEPT ![s] = Tail(@)]
           /\ yielded' = [yielded EXCEPT ![s] = Append(@, run)]
           /\ IF duration(run).tag = "Err"
              THEN /\ pc' = [pc EXCEPT ![s] = "panic"]
                   /\ process' = "aborted"
                   /\ output' = output
              ELSE /\ pc' = pc
                   /\ process' = process
                   /\ output' = Append(output, RunLine(run))
    /\ UNCHANGED <<since, listing, server, policy, state, response, next,
                   inflight, requests, pages, failure, stats,
                   queue, futures, sum, filter, extras>>

Fetches(s) ==
    /\ \/ PollFetch(s)
       \/ PollEnd(s)
       \/ SendFail(s)
       \/ SendOk(s)
       \/ JsonFail(s)
       \/ JsonOk(s)
    /\ UNCHANGED <<dispatcher, filter, extras>>

NextList ==
    \/ \E s \in Streams : Fetches(s)
    \/ \E s \in Streams : ShowsRun(s)

SpecList == InitList /\ [][NextList]_vars

\* ---------------------------------------------- Stats dispatcher claims
\* The workflows the dispatcher has pulled from the filtered stream.
Pulled == {w \in Workflows : \A i \in 1..Len(queue) : queue[i] # w}

\* The pipelines that were started and have not finished.
Running == {w \in Pulled : pc[w] # "done"}

\* The pipelines with a request sent and not yet answered.
Outstanding == {w \in Workflows : inflight[w] > 0}

\* C13: whatever the number of filtered workflows and the interleaving, at
\* most ConcurrencyLimit pipelines are started and not finished at any time,
\* so at most that many have a request outstanding.
C13_BoundedConcurrency ==
    /\ Cardinality(Running) <= ConcurrencyLimit
    /\ Cardinality(Outstanding) <= ConcurrencyLimit
    /\ Outstanding \subseteq Running
    /\ Running = futures

C13_Witness ==
    /\ NumWorkflows > ConcurrencyLimit
    /\ Cardinality(Running) = ConcurrencyLimit
    /\ Outstanding = Running
    /\ queue # <<>>
    /\ \E w \in Workflows : Len(requests[w]) = 2

\* The rows written so far, and the workflows they are for, in output order.
Rows == SelectSeq(output, LAMBDA l : l.kind = "row")
RowNames == [i \in 1..Len(Rows) |-> Rows[i].name]

RECURSIVE SumTotals(_)
SumTotals(ws) ==
    IF ws = {} THEN 0
    ELSE LET w == CHOOSE x \in ws : TRUE
         IN  stats[w].total + SumTotals(ws \ {w})

\* C14: when the dispatcher has finished, every pipeline has returned and the
\* grand total is the sum of the totals of the RunStats of all the filtered
\* workflows, each the total of the runs its pipeline kept, whatever the
\* order the pipelines completed in.
C14_GrandTotal ==
    process = "finished" =>
        /\ \A w \in Workflows : pc[w] = "done"
        /\ \A w \in Workflows :
               stats[w].total = SumElapsed(yielded[w], Kept(yielded[w]))
        /\ sum = SumTotals(Workflows)
        /\ output[Len(output)] = TotalLine(SumTotals(Workflows))

C14_Witness ==
    /\ process = "finished"
    /\ sum = 2
    /\ RowNames = <<2, 3, 1>>
    /\ stats[1].total = 1
    /\ stats[2].total = 0
    /\ stats[3].total = 1

\* C15: the dispatcher writes one row per filtered workflow, in the step in
\* which the pipeline of the workflow completes and after the rows written
\* before: the rows are in completion order, and when the dispatcher has
\* finished there is exactly one row for each workflow.
OneRowEach ==
    /\ \A i, j \in 1..Len(Rows) : Rows[i].name = Rows[j].name => i = j
    /\ {Rows[i].name : i \in 1..Len(Rows)} = {w \in Workflows : pc[w] = "done"}
    /\ process = "finished" => Len(Rows) = NumWorkflows

RowAtCompletion ==
    /\ \A w \in Workflows :
           (pc[w] # "done" /\ pc'[w] = "done") =>
               output' = Append(output, Row(w, stats'[w]))
    /\ (\A w \in Workflows : pc'[w] = pc[w] \/ pc'[w] # "done") =>
           SelectSeq(output', LAMBDA l : l.kind = "row") =
               SelectSeq(output, LAMBDA l : l.kind = "row")

C15_RowPerCompletion == [](OneRowEach) /\ [][RowAtCompletion]_vars

C15_Witness ==
    /\ process = "finished"
    /\ RowNames = <<2, 1, 3>>
    /\ Rows[1].count = 0 /\ Rows[1].min = "-"
    /\ Rows[2].count = 1 /\ Rows[2].min = 1

\* C16: a failure inside the pipeline of one workflow does not abort the
\* pipelines of the others: the process is never stopped while a workflow
\* whose own pipeline did not fail is still waiting for its row.
C16_SiblingsSurvive ==
    \A w \in Workflows :
        (pc[w] # "done" /\ pc[w] # "panic") => process # "aborted"

\* A failed or undecodable run-listing request ends only its own pipeline:
\* the pipeline completes with a row and the others keep running.
C16_FailedRequestIsLocal ==
    \A w \in Workflows :
        failure[w] # "none" =>
            /\ pc[w] = "done"
            /\ \E i \in 1..Len(Rows) : Rows[i].name = w
            /\ (\A v \in Workflows : pc[v] # "panic") => process # "aborted"

C16_FailedRequestWitness ==
    /\ process = "finished"
    /\ failure[1] = "transport"
    /\ failure[2] = "decode"
    /\ failure[3] = "none"
    /\ stats[3].count = 2

\* The fold of one pipeline panicked on a run that finished before it was
\* created, while a second pipeline waits for a response and a third workflow
\* was never started.
C16_Witness ==
    /\ process = "aborted"
    /\ pc[1] = "panic"
    /\ pc[2] = "send" /\ inflight[2] = 1
    /\ queue = <<3>>

\* C17: a pipeline whose run listing failed is reported as failed, not by an
\* ordinary row of statistics, and adds nothing to the grand total: the total
\* is the sum over the pipelines that ended by exhaustion or by the policy.
C17_FailedExcluded ==
    /\ \A i \in 1..Len(Rows) :
           failure[Rows[i].name] # "none" =>
               Rows[i] # Row(Rows[i].name, stats[Rows[i].name])
    /\ process = "finished" =>
           sum = SumTotals({w \in Workflows : failure[w] = "none"})

\* The pipeline of a workflow completed after a request of its listing
\* failed, with the runs of the pages before in its total and in the sum.
C17_Witness ==
    /\ process = "finished"
    /\ failure[1] = "transport"
    /\ Len(requests[1]) = 2
    /\ stats[1].total = 1
    /\ sum = 1
    /\ Rows[1] = Row(1, stats[1])

\* C18: a run created strictly before the cutoff is dropped downstream of
\* the listing even when it sits on a page the policy accepted: the List
\* command prints no such run.
C18_OldRunsDropped ==
    \A i \in 1..Len(output) :
        output[i].kind = "run" => output[i].run.created_at >= since

\* A page accepted for a run at the cutoff also holds a run created before
\* it, and the List command has printed both.
C18_Witness ==
    /\ since = 1
    /\ Len(pages[1]) = 1
    /\ Approves(1, pages[1][1])
    /\ Len(output) = 2
    /\ output[1].run.created_at < since
    /\ output[2].run.created_at >= since

\* The stream goes on after its k-th request: the page was decoded, carries a
\* next entry and holds a run created at or after the cutoff.
GoesOn(s, k) ==
    /\ k <= Len(pages[s])
    /\ HasNextEntry(PageOf(s, k))
    /\ \E i \in 1..Len(ItemsOf(s, k)) : ItemsOf(s, k)[i].created_at >= since

\* The smallest and the largest of a non-empty set of durations.
Least(ds) == CHOOSE d \in ds : \A e \in ds : d <= e
Greatest(ds) == CHOOSE d \in ds : \A e \in ds : d >= e

\* C19: the time-windowed run listing sends no request past the first page
\* that has no next link, holds no run created at or after the cutoff, or
\* whose request failed, and when it is over the number of its requests is the
\* index of that page.  Over the two-page listing (three runs, two of them
\* recent, and a next link; then one older run and no next link) it sends
\* exactly two requests and run_stats gives count 2 with the total, min and max
\* of the two recent runs.
C19_RequestCount ==
    \A s \in Streams :
        policy[s] = "runs" =>
            /\ \A k \in 1..(Len(requests[s]) - 1) : GoesOn(s, k)
            /\ pc[s] = "done" =>
                   /\ Len(requests[s]) >= 1
                   /\ ~GoesOn(s, Len(requests[s]))
                   /\ failure[s] # "none" \/ Len(pages[s]) = Len(requests[s])
            /\ (TwoPageListing(since, server) /\ pc[s] = "done" /\ failure[s] = "none") =>
                   LET ds == {Elapsed(ItemsOf(s, 1)[i]) : i \in Kept(ItemsOf(s, 1))}
                   IN  /\ Len(requests[s]) = 2
                       /\ stats[s].count = 2
                       /\ stats[s].total = SumElapsed(ItemsOf(s, 1), Kept(ItemsOf(s, 1)))
                       /\ stats[s].min = Some(Least(ds))
                       /\ stats[s].max = Some(Greatest(ds))

\* The two-page listing was read to its end: two requests, four runs handed
\* over, the two recent ones counted.
C19_Witness ==
    /\ TwoPageListing(since, server)
    /\ since = 1
    /\ pc[1] = "done"
    /\ failure[1] = "none"
    /\ Len(requests[1]) = 2
    /\ Len(yielded[1]) = 4
    /\ yielded[1][2].created_at < since
    /\ stats[1] = [count |-> 2, total |-> 1, min |-> Some(0), max |-> Some(1)]

\* Two characters are the same letter, whatever their case.
SameLetter(a, b) == a = b \/ {a, b} = {"c", "C"} \/ {a, b} = {"t", "T"}

\* The filter is absent, or the name holds it as a contiguous part when case
\* is ignored.
Wanted(flow) ==
    \/ name_filter.tag = "None"
    \/ \E k \in 0..(Len(flow.name) - Len(name_filter.v)) :
          \A j \in 1..Len(name_filter.v) :
              SameLetter(flow.name[k + j], name_filter.v[j])

\* C20: filtered_workflows lets a workflow through exactly when the filter is
\* absent or the lower-cased name of the workflow contains the lower-cased
\* filter; the workflows let through are in input order and unaltered.
C20_FilteredWorkflows ==
    workflows_out =
        SelectSeq(SubSeq(workflows_in, 1, workflows_seen), LAMBDA flow : Wanted(flow))

\* The filter "C" let the workflow named "ct" through and dropped the one
\* named "t".
C20_Witness ==
    /\ name_filter = Some(<<"C">>)
    /\ workflows_in = WorkflowsOf(<< <<"c", "t">>, <<"t">> >>)
    /\ workflows_seen = 2
    /\ workflows_out = <<[id |-> 1, name |-> <<"c", "t">>]>>

\* The paths of the hits for a repository, in the order of the stream.
RECURSIVE PathsFor(_, _)
PathsFor(hits, name) ==
    IF hits = <<>> THEN <<>>
    ELSE (IF Head(hits).repository.full_name = name THEN <<Head(hits).path>> ELSE <<>>)
         \o PathsFor(Tail(hits), name)

RECURSIVE CountPaths(_)
CountPaths(records) ==
    IF records = <<>> THEN 0
    ELSE Len(Head(records).workflows) + CountPaths(Tail(records))

\* C21: Requests::repos returns one Repo record for each repository full name
\* among the search hits and for no other; the paths of a record are the
\* paths of the hits for its repository, one per hit, in stream order and
\* with repetitions, so the paths of all records are as many as the hits.
C21_ReposGrouping ==
    repos.tag = "Some" =>
        LET records == repos.v
            hits == yielded[1]
        IN  /\ \A i, j \in 1..Len(records) :
                   records[i].full_name = records[j].full_name => i = j
            /\ {records[i].full_name : i \in 1..Len(records)}
                   = {hits[k].repository.full_name : k \in 1..Len(hits)}
            /\ \A i \in 1..Len(records) :
                   records[i].workflows = PathsFor(hits, records[i].full_name)
            /\ CountPaths(records) = Len(hits)

\* Two hits for org/b with the same path and one for org/a between them gave
\* two records, the one of org/b with the path twice.
C21_Witness ==
    /\ repos.tag = "Some"
    /\ Len(yielded[1]) = 3
    /\ yielded[1][1].repository.full_name = "org/b"
    /\ Len(repos.v) = 2
    /\ repos.v[1] = [full_name |-> "org/a", workflows |-> <<"b">>]
    /\ repos.v[2] = [full_name |-> "org/b", workflows |-> <<"a", "a">>]

\* C22: without the token variable a command sends no request and the
\* process exits with code 1 after reporting the error, and with no other
\* code; every request that is sent, the first and those that follow a next
\* link, carries the User-Agent header and the Authorization header.
C22_TokenAndHeaders ==
    /\ token.tag = "None" =>
           /\ \A s \in Streams : requests[s] = <<>> /\ inflight[s] = 0
           /\ process \in {"starting", "exited"}
           /\ process = "exited" =>
                  /\ exit_code = Some(1)
                  /\ output = <<ErrorLine("Please provide a GITHUB_TOKEN env variable")>>
    /\ exit_code = Some(1) => token.tag = "None"
    /\ \A s \in Streams : \A k \in 1..Len(requests[s]) :
           {"User-Agent", "Authorization"} \subseteq requests[s][k].headers
    /\ \A s \in Streams :
           state[s].tag = "Fetch" =>
               {"User-Agent", "Authorization"} \subseteq state[s].builder.headers

\* Without the token the process has exited with code 1 and sent nothing.
C22_Witness ==
    /\ token.tag = "None"
    /\ process = "exited"
    /\ exit_code = Some(1)
    /\ requests[1] = <<>>
    /\ Len(output) = 1

\* With the token a request that followed a next link carried both headers
\* and the process exited with code 0.
C22_WitnessHeaders ==
    /\ token.tag = "Some"
    /\ exit_code = Some(0)
    /\ Len(requests[1]) = 3
    /\ requests[1][3].url = 3
    /\ "Authorization" \in requests[1][3].headers

\* What the consumer of stream s and a reader of the output of the process
\* have seen once the stream is over: the items, the end of the stream, the
\* statistics folded from the items, the lines written.
Observation(s) ==
    [items |-> yielded[s], ended |-> pc[s] = "done", stats |-> stats[s],
     lines |-> output]

\* C23: the end of a stream tells its reason: a stream that ended because a
\* request or a decoding failed is not observed as a stream that ended
\* because the pages were exhausted.
C23_Distinguishable ==
    \A a, b \in Streams :
        (/\ pc[a] = "done" /\ failure[a] = "none"
         /\ pc[b] = "done" /\ failure[b] # "none") =>
            Observation(a) # Observation(b)

\* Two runs sent the same two requests; in the first the second request was
\* answered with an empty page without a next link, in the second it failed,
\* and both were observed alike.
C23_Witness ==
    /\ pc[1] = "done" /\ failure[1] = "none"
    /\ pc[2] = "done" /\ failure[2] = "transport"
    /\ requests[1] = requests[2]
    /\ Len(requests[1]) = 2
    /\ ItemsOf(1, 2) = <<>>
    /\ ~HasNextEntry(PageOf(1, 2))
    /\ yielded[1] # <<>>
    /\ Observation(1) = Observation(2)

\* The days of the years 2019 and 2020.
CalendarDays ==
    {d \in [year : {2019, 2020}, month : 1..12, day : 1..31] :
        /\ d.month \in {4, 6, 9, 11} => d.day <= 30
        /\ d.month = 2 => d.day <= (IF d.year = 2020 THEN 29 ELSE 28)}

\* The text is a day written yyyy-mm-dd.
Written(text, d) ==
    /\ Len(text) = 5
    /\ text[2] = "-" /\ text[4] = "-"
    /\ \A i \in {1, 3, 5} : text[i] \in DOMAIN Number
    /\ Number[text[1]] = d.year
    /\ Number[text[3]] = d.month
    /\ Number[text[5]] = d.day

C24_WitnessParsed ==
    /\ timestamp = Some(<<"2020", "-", "02", "-", "29">>)
    /\ since = [year |-> 2020, month |-> 2, day |-> 29,
                hour |-> 0, minute |-> 0, second |-> 0]

HasRow(w) == \E i \in 1..Len(Rows) : Rows[i].name = w

\* C26: no pipeline is dropped: when every request that is sent is answered,
\* the pipeline of each filtered workflow is started, completes and has its
\* row written, and the dispatcher finishes.
C26_EveryPipelineCompletes ==
    /\ \A w \in Workflows : <>(w \in Pulled /\ pc[w] = "done" /\ HasRow(w))
    /\ <>(process = "finished")

\* Every workflow gets its row unless Run::duration has panicked.
C26_UnlessPanic ==
    \A w \in Workflows : <>(HasRow(w) \/ process = "aborted")

\* The dispatcher finishes only after every pipeline has completed.
C26_FinishesLast ==
    process = "finished" => \A w \in Workflows : pc[w] = "done" /\ HasRow(w)

\* The first pipeline has completed, the second has panicked on a run that
\* finished before it was created, and the third workflow is still in the
\* queue of a process that has stopped.
C26_Witness ==
    /\ process = "aborted"
    /\ HasRow(1)
    /\ pc[2] = "panic"
    /\ queue = <<3>>
    /\ pc[3] = "ready" /\ requests[3] = <<>>

RECURSIVE SumShown(_)
SumShown(rows) ==
    IF rows = <<>> THEN 0 ELSE Head(rows).total + SumShown(Tail(rows))

\* C27: in every state of the dispatcher the accumulator of the grand total
\* is the sum of the totals shown in the rows written so far: a pipeline adds
\* its total and writes its row in one step.
C27_SumOfRows == sum = SumShown(Rows)

\* One pipeline has written a row with a total of two runs, a second one a
\* row without runs, and the third is still running.
C27_Witness ==
    /\ process = "running"
    /\ Len(Rows) = 2
    /\ Rows[1].total = 2 /\ Rows[1].count = 2
    /\ Rows[2].total = 0
    /\ sum = 2
    /\ Cardinality(Running) = 1


\* C28: what a stream has yielded is always a page-granular prefix of the pages
\* the server answered with, in request order. When the request for page k
\* fails, or its body does not decode although the request succeeded, the
\* stream is over with exactly the items of pages 1..k-1 yielded: none of page
\* k, no request for a later page. While page k is requested or decoded the
\* items of pages 1..k-1 are all out, and between two requests the items
\* yielded are those pages and a front part of page k.
C28_PageGranularPrefix ==
    \A s \in Streams :
        LET n == Len(pages[s])
            k == Len(requests[s])
        IN  /\ failure[s] # "none" =>
                   /\ k = n + 1
                   /\ pc[s] = "done"
                   /\ state[s].tag = "Fetch"
                   /\ state[s].builder = requests[s][k]
                   /\ inner[s] = <<>>
            /\ failure[s] = "decode" =>
                   /\ PageOf(s, k).kind = "page"
                   /\ PageOf(s, k).body.kind = "garbage"
            /\ k \in {n, n + 1}
            /\ k = n + 1 => yielded[s] = ItemsUpTo(s, n)
            /\ k = n /\ n >= 1 =>
                   \E j \in 0..Len(ItemsOf(s, n)) :
                       yielded[s] = ItemsUpTo(s, n - 1) \o SubSeq(ItemsOf(s, n), 1, j)

\* The third request succeeded with a next entry and a body that did not
\* decode, after two pages of one item each.
C28_Witness ==
    /\ failure[1] = "decode"
    /\ Len(requests[1]) = 3
    /\ Len(pages[1][1]) = 1
    /\ Len(pages[1][2]) = 1
    /\ HasNextEntry(PageOf(1, 3))
    /\ Len(yielded[1]) = 2

====
